---- MODULE Spec2Model ----
(***************************************************************************)
(* Model of the node binding of a napa zone (zone-wrap.cpp): construction  *)
(* of a ZoneWrap, execute / executeSync / broadcast / broadcastSync, the   *)
(* request built from a JavaScript object, the response object built from  *)
(* a napa::ExecuteResponse, and the hand-over of a completion from a zone   *)
(* worker thread to the node thread.                                       *)
(*                                                                         *)
(* JavaScript values are records [t |-> type tag, v |-> payload].  A       *)
(* string, in JavaScript or in C++, is a sequence of one-character         *)
(* strings, so that parsing and formatting are computed and not assumed.   *)
(***************************************************************************)
EXTENDS Integers, Sequences, FiniteSets, TLC

(***************************************************************************)
(* Bounds of the model.                                                    *)
(***************************************************************************)
\* Longest returnValue text drawn by the decoding specification.
MaxLen == 4
\* Number of method calls made on the node thread in one behaviour.
MaxCalls == 2
\* Number of ZoneWrap objects constructed in one behaviour.
MaxWraps == 2

(***************************************************************************)
(* JavaScript values.                                                      *)
(***************************************************************************)
Undefined == [t |-> "undefined", v |-> <<>>]
JSString(s) == [t |-> "string", v |-> s]
JSNumber(n) == [t |-> "number", v |-> n]
JSArray(es) == [t |-> "array", v |-> es]
JSFunction(f) == [t |-> "function", v |-> f]
JSObject(props) == [t |-> "object", v |-> props]

\* v8::Value::IsString, IsFunction, IsObject (arrays and functions are objects).
IsString(val) == val.t = "string"
IsFunction(val) == val.t = "function"
IsObject(val) == val.t \in {"object", "array", "function"}

\* A property slot of an object: no such key, a getter that throws, or a value.
Absent == [t |-> "absent", v |-> <<>>]
Throws == [t |-> "throws", v |-> <<>>]

\* v8::Object::Get(context, key): the Maybe is empty only when the lookup
\* throws; a key the object does not have yields the value undefined.
Get(obj, key) ==
    LET slot == obj.v[key]
    IN  IF slot.t = "throws" THEN [empty |-> TRUE, val |-> Undefined]
        ELSE IF slot.t = "absent" THEN [empty |-> FALSE, val |-> Undefined]
        ELSE [empty |-> FALSE, val |-> slot]

(***************************************************************************)
(* Strings: decimal digits and the string form of a value.                 *)
(***************************************************************************)
DigitChars == <<"0", "1", "2", "3", "4", "5", "6", "7", "8", "9">>
IsDigit(c) == \E d \in 1..10 : DigitChars[d] = c
DigitVal(c) == (CHOOSE d \in 1..10 : DigitChars[d] = c) - 1

RECURSIVE NumToStr(_)
NumToStr(n) ==
    IF n < 10 THEN <<DigitChars[n + 1]>>
    ELSE NumToStr(n \div 10) \o <<DigitChars[(n % 10) + 1]>>

UndefinedText == <<"u", "n", "d", "e", "f", "i", "n", "e", "d">>

\* Utf8String(value): the UTF-8 text of value->ToString().
RECURSIVE Utf8String(_)
RECURSIVE JoinTexts(_)
JoinTexts(es) ==
    IF es = <<>> THEN <<>>
    ELSE IF Len(es) = 1 THEN Utf8String(es[1])
    ELSE Utf8String(es[1]) \o <<",">> \o JoinTexts(Tail(es))
Utf8String(val) ==
    CASE val.t = "string" -> val.v
      [] val.t = "number" -> NumToStr(val.v)
      [] val.t = "array" -> JoinTexts(val.v)
      [] OTHER -> UndefinedText

\* Value::Uint32Value: undefined (NaN) is 0; the numbers of the model are
\* naturals below 2^31, which the conversion to uint32 leaves as they are.
Uint32Value(val) == IF val.t = "number" THEN val.v ELSE 0

(***************************************************************************)
(* v8::JSON::Parse on texts without white space, escapes, signs, fractions *)
(* or literals: numbers, strings and arrays.                               *)
(***************************************************************************)
ParseFail == [ok |-> FALSE, val |-> Undefined, next |-> 0]

\* The digits of s from position i on, as [val, next].
RECURSIVE ParseDigits(_, _, _)
ParseDigits(s, i, acc) ==
    IF i <= Len(s) /\ IsDigit(s[i])
    THEN ParseDigits(s, i + 1, 10 * acc + DigitVal(s[i]))
    ELSE [ok |-> TRUE, val |-> JSNumber(acc), next |-> i]

\* Position of the first quote at or after i, 0 when there is none.
RECURSIVE FindQuote(_, _)
FindQuote(s, i) ==
    IF i > Len(s) THEN 0
    ELSE IF s[i] = "\"" THEN i
    ELSE FindQuote(s, i + 1)

RECURSIVE ParseValue(_, _)
RECURSIVE ParseElems(_, _, _)
ParseValue(s, i) ==
    IF i > Len(s) THEN ParseFail
    ELSE IF s[i] = "0" THEN [ok |-> TRUE, val |-> JSNumber(0), next |-> i + 1]
    ELSE IF IsDigit(s[i]) THEN ParseDigits(s, i, 0)
    ELSE IF s[i] = "\"" THEN
        LET j == FindQuote(s, i + 1)
        IN  IF j = 0 THEN ParseFail
            ELSE [ok |-> TRUE, val |-> JSString(SubSeq(s, i + 1, j - 1)), next |-> j + 1]
    ELSE IF s[i] = "[" THEN
        IF i + 1 <= Len(s) /\ s[i + 1] = "]"
        THEN [ok |-> TRUE, val |-> JSArray(<<>>), next |-> i + 2]
        ELSE ParseElems(s, i + 1, <<>>)
    ELSE ParseFail
\* The elements of an array after "[" or ",", up to and including "]".
ParseElems(s, i, acc) ==
    LET e == ParseValue(s, i)
    IN  IF ~e.ok \/ e.next > Len(s) THEN ParseFail
        ELSE IF s[e.next] = "]"
             THEN [ok |-> TRUE, val |-> JSArray(Append(acc, e.val)), next |-> e.next + 1]
        ELSE IF s[e.next] = ","
             THEN ParseElems(s, e.next + 1, Append(acc, e.val))
        ELSE ParseFail

\* The MaybeLocal of v8::JSON::Parse: empty (and an exception thrown) when the
\* text is not JSON.
JSONParse(s) ==
    LET r == ParseValue(s, 1)
    IN  IF r.ok /\ r.next = Len(s) + 1
        THEN [empty |-> FALSE, val |-> r.val]
        ELSE [empty |-> TRUE, val |-> Undefined]

(***************************************************************************)
(* The response object handed to JavaScript.                               *)
(***************************************************************************)
\* napa::ExecuteResponse.
Response(code, errorMessage, returnValue) ==
    [code |-> code, errorMessage |-> errorMessage, returnValue |-> returnValue]

\* CreateResponseObject: the object, the number of calls of v8::JSON::Parse it
\* made, and whether an exception is left pending when it returns (the
\* v8::TryCatch in scope takes the exception of a failed parse).
CreateResponseObjectNeverParses(response) ==
    [object |-> [code |-> JSNumber(response.code),
                 errorMessage |-> JSString(response.errorMessage),
                 returnValue |-> JSString(response.returnValue)],
     parses |-> IF response.returnValue = <<>> THEN 0 ELSE 1,
     pending |-> FALSE]
CreateResponseObjectAlwaysParses(response) ==
    LET parsed == JSONParse(response.returnValue)
    IN  [object |-> [code |-> JSNumber(response.code),
                     errorMessage |-> JSString(response.errorMessage),
                     returnValue |-> IF parsed.empty
                                     THEN JSString(response.returnValue)
                                     ELSE parsed.val],
         parses |-> 1,
         pending |-> FALSE]
CreateResponseObject(response) ==
    LET isEmpty == response.returnValue = <<>>
        tryCatch == TRUE
        parsed == JSONParse(response.returnValue)
    IN  [object |-> [code |-> JSNumber(response.code),
                     errorMessage |-> JSString(response.errorMessage),
                     returnValue |-> IF isEmpty THEN JSString(<<>>)
                                     ELSE IF parsed.empty
                                          THEN JSString(response.returnValue)
                                          ELSE parsed.val],
         parses |-> IF isEmpty THEN 0 ELSE 1,
         pending |-> ~isEmpty /\ parsed.empty /\ ~tryCatch]

(***************************************************************************)
(* The request built from a JavaScript object.                             *)
(***************************************************************************)
\* napa::ExecuteRequest as default-constructed: no module, no arguments, and
\* timeout 0, which is no timeout.
EmptyRequest == [module |-> <<>>, function |-> <<>>, arguments |-> <<>>, timeout |-> 0]

MissingFunction == "function property is missing in execution request object"
FunctionNotString == "function property in execution request object must be a string"

\* What an unchecked read of a non-array as an array can leave in a vector.
GarbageText == <<"?">>

\* V8ArrayToVector<Utf8String>(Local<Array>::Cast(value)): the string forms of
\* the elements in order.  The cast is unchecked: on a value that is no array
\* the read of its length and elements is undefined, and the process aborts
\* or goes on with whatever was read.
V8ArrayToVector(val) ==
    IF val.t = "array"
    THEN {[crash |-> FALSE, vec |-> [i \in 1..Len(val.v) |-> Utf8String(val.v[i])]]}
    ELSE {[crash |-> TRUE, vec |-> <<>>],
          [crash |-> FALSE, vec |-> <<>>],
          [crash |-> FALSE, vec |-> <<GarbageText>>]}

\* The two CHECK_ARGs on the function property: the message of the TypeError
\* thrown, or "" when both pass.
FunctionCheckPresenceOnly(function) ==
    IF function.empty THEN MissingFunction ELSE ""
FunctionCheck(function) ==
    IF function.empty THEN MissingFunction
    ELSE IF ~IsString(function.val) THEN FunctionNotString
    ELSE ""

\* CreateRequestAndExecute up to the call of func: the outcomes are a thrown
\* TypeError (func is not called), an abort of the process, or the request
\* func is called with.
CreateRequest(obj) ==
    LET module == Get(obj, "module")
        function == Get(obj, "function")
        arguments == Get(obj, "arguments")
        timeout == Get(obj, "timeout")
        vectors == IF arguments.empty
                   THEN {[crash |-> FALSE, vec |-> <<>>]}
                   ELSE V8ArrayToVector(arguments.val)
    IN  IF FunctionCheck(function) # ""
        THEN {[kind |-> "threw", message |-> FunctionCheck(function),
               request |-> EmptyRequest]}
        ELSE {IF a.crash
              THEN [kind |-> "crash", message |-> "", request |-> EmptyRequest]
              ELSE [kind |-> "request", message |-> "",
                    request |-> [module |-> IF module.empty THEN <<>>
                                            ELSE Utf8String(module.val),
                                 function |-> Utf8String(function.val),
                                 arguments |-> a.vec,
                                 timeout |-> IF timeout.empty THEN 0
                                             ELSE Uint32Value(timeout.val)]]
              : a \in vectors}

(***************************************************************************)
(* Inputs of the model.                                                    *)
(***************************************************************************)
Text(str) == JSString(str)
Foo == <<"f", "o", "o">>
Boom == <<"b", "o", "o", "m">>

Props(module, function, arguments, timeout) ==
    JSObject([module |-> module, function |-> function,
              arguments |-> arguments, timeout |-> timeout])

\* {function: "foo"}
ObjFunctionOnly == Props(Absent, Text(Foo), Absent, Absent)
\* {module: "m", function: "foo", arguments: [1, "a"], timeout: 30}
ObjFull == Props(Text(<<"m">>), Text(Foo),
                 JSArray(<<JSNumber(1), Text(<<"a">>)>>), JSNumber(30))
\* {module: "m", arguments: []}
ObjNoFunction == Props(Text(<<"m">>), Absent, JSArray(<<>>), Absent)
\* {function: 7, arguments: []}
ObjNumberFunction == Props(Absent, JSNumber(7), JSArray(<<>>), Absent)
\* {get function() { throw ... }, arguments: []}
ObjThrowingFunction == Props(Absent, Throws, JSArray(<<>>), Absent)
\* {function: "foo", arguments: 5}
ObjNumberArguments == Props(Absent, Text(Foo), JSNumber(5), Absent)
\* {function: "foo", arguments: ["4"]}
ObjNoModule == Props(Absent, Text(Foo), JSArray(<<Text(<<"4">>)>>), Absent)

\* The request objects over these property values.
RequestObjects ==
    {Props(m, f, a, t) :
        m \in {Absent, Text(<<"m">>)},
        f \in {Absent, Throws, Text(Foo), JSNumber(7)},
        a \in {Absent, JSArray(<<>>), JSArray(<<JSNumber(1), Text(<<"a">>)>>), JSNumber(5)},
        t \in {Absent, JSNumber(30)}}
\* First arguments of execute and executeSync.
ExecuteInputs == {ObjFull, ObjNoFunction}
AllExecuteInputs == RequestObjects \cup {JSNumber(5)}
\* First arguments of broadcast and broadcastSync.
Sources == {Text(<<"a">>)}
AllSources == {Text(<<"a">>), JSNumber(5)}
\* Second argument of execute and broadcast in call c: a fresh function, or a
\* value that is no function.
Callbacks(c) == {JSFunction(c)}
AllCallbacks(c) == {JSFunction(c), Undefined}

\* Responses of the zone.
Responses == {Response(0, <<>>, <<"4", "0">>), Response(1, Boom, <<>>)}
ResponseCodes == {0, 1}

\* The texts of at most n characters over the characters of JSON numbers,
\* strings and arrays, and a letter.
Alphabet == {"0", "4", "[", "]", ",", "\"", "a"}
Texts(n) == UNION {[1..k -> Alphabet] : k \in 0..n}
AllResponses ==
    {Response(code, IF code = 0 THEN <<>> ELSE Boom, text) :
        code \in ResponseCodes, text \in Texts(MaxLen)}

Z1 == <<"z", "1">>
Z2 == <<"z", "2">>
Workers == <<"w", "o", "r", "k", "e", "r", "s">>
\* {workers: "4"}: the properties of a settings object, in order.
SettingsWorkers == JSObject(<<[key |-> Workers, value |-> Text(<<"4">>)]>>)
\* {}, {workers: 4, b: "0"} and {b: "0", workers: 4}
SettingsNone == JSObject(<<>>)
SettingsWorkersFirst ==
    JSObject(<<[key |-> Workers, value |-> JSNumber(4)],
               [key |-> <<"b">>, value |-> Text(<<"0">>)]>>)
SettingsWorkersLast ==
    JSObject(<<[key |-> <<"b">>, value |-> Text(<<"0">>)],
               [key |-> Workers, value |-> JSNumber(4)]>>)
\* Arguments of createZone and getZone.
CreateArguments == {<<Text(Z1)>>, <<Text(Z1), SettingsWorkers>>,
                    <<Text(Z1), SettingsNone>>, <<Text(Z1), SettingsWorkersFirst>>,
                    <<Text(Z1), SettingsWorkersLast>>,
                    <<Text(Z1), JSNumber(5)>>, <<JSNumber(5)>>}
GetArguments == {<<Text(Z1)>>, <<Text(Z2)>>, <<JSNumber(5)>>}

(***************************************************************************)
(* State.                                                                  *)
(***************************************************************************)
VARIABLES
    zones,      \* scheduler: the ids of the zones that exist
    wraps,      \* the ZoneWrap objects constructed, each with its _zoneProxy
    pc,         \* node thread: "idle", "returning", "blocked" or "crashed"
    calls,      \* the method calls made from JavaScript, in order
    handlers,   \* the NodeAsyncHandler of each call
    jobs,       \* scheduler: the asynchronous work of each call
    taskQueue,  \* the tasks posted to the node thread, not yet run
    cbLog,      \* the invocations of user callbacks, in order
    schedLog,   \* the calls of the ZoneProxy entry points, in order
    lastNew,    \* the outcome of the last construction of a ZoneWrap
    parseCount, \* number of calls of v8::JSON::Parse so far
    loopAlive   \* whether the node event loop still runs

vars == <<zones, wraps, pc, calls, handlers, jobs, taskQueue, cbLog, schedLog,
          lastNew, parseCount, loopAlive>>

CallIds == 1..MaxCalls
NoHandler == [state |-> "none", callback |-> Undefined, kind |-> "none"]
NoResponse == Response(0, <<>>, <<>>)
\* The work of a call in the zone; value holds the value it finished with,
\* and late says that the node event loop had stopped when it finished.
NoJob == [state |-> "none", entry |-> "none", value |-> <<>>, late |-> FALSE]
NullProxy == Undefined
NoConstruction == [type |-> "none", id |-> Undefined, outcome |-> "none",
                   entry |-> "none", config |-> <<>>, args |-> <<>>]

Init ==
    /\ zones = {}
    /\ wraps = <<>>
    /\ pc = "idle"
    /\ calls = <<>>
    /\ handlers = [c \in CallIds |-> NoHandler]
    /\ jobs = [c \in CallIds |-> NoJob]
    /\ taskQueue = <<>>
    /\ cbLog = <<>>
    /\ schedLog = <<>>
    /\ lastNew = NoConstruction
    /\ parseCount = 0
    /\ loopAlive = TRUE

(***************************************************************************)
(* Construction: NewInstance and NewCallback.                              *)
(***************************************************************************)
\* V8ObjectToMap<std::string>: the pairs of the settings object as texts.
V8ObjectToMap(obj) ==
    [i \in 1..Len(obj.v) |-> [key |-> obj.v[i].key, value |-> Utf8String(obj.v[i].value)]]

\* The stringstream of NewCallback: " --key value" for each pair of the map.
RECURSIVE ConfigStringReversed(_)
ConfigStringReversed(map) ==
    IF map = <<>> THEN <<>>
    ELSE ConfigStringReversed(Tail(map))
         \o <<" ", "-", "-">> \o map[1].key \o <<" ">> \o map[1].value
RECURSIVE ConfigString(_)
ConfigString(map) ==
    IF map = <<>> THEN <<>>
    ELSE <<" ", "-", "-">> \o map[1].key \o <<" ">> \o map[1].value
         \o ConfigString(Tail(map))

\* napa::ZoneProxy::Get(id): a proxy of the zone registered under id; it
\* fails with NotFound when there is none.
ZoneProxyGet(zs, id) ==
    IF id \in zs THEN [found |-> TRUE, proxy |-> Text(id)]
    ELSE [found |-> FALSE, proxy |-> NullProxy]

\* NewCallback, the GET branch on a string id: a failure of ZoneProxy::Get
\* leaves NewCallback at that call, before the ZoneWrap is made and wrapped.
GetBranchWrapsNull(zs, id) ==
    LET got == ZoneProxyGet(zs, id)
    IN  [constructed |-> TRUE, zoneProxy |-> got.proxy,
         outcome |-> IF got.found THEN "constructed" ELSE "NotFound"]
GetBranch(zs, id) ==
    LET got == ZoneProxyGet(zs, id)
    IN  IF got.found
        THEN [constructed |-> TRUE, zoneProxy |-> got.proxy, outcome |-> "constructed"]
        ELSE [constructed |-> FALSE, zoneProxy |-> NullProxy, outcome |-> "NotFound"]

\* The branch NewCallback takes: it compares the constructor type NewInstance
\* put in front of the arguments with CREATE, and looks at nothing else.
ConstructorBranchInferred(type, args) ==
    IF IsString(args[1]) /\ args[1].v \in zones THEN "getZone" ELSE "createZone"
ConstructorBranch(type, args) == IF type = "CREATE" THEN "createZone" ELSE "getZone"

\* NewInstance(type, args) and the NewCallback it runs: args are the
\* arguments of createZone or getZone, which NewInstance passes on after the
\* constructor type.
NewCallback(type, args) ==
    /\ pc = "idle"
    /\ loopAlive
    /\ Len(wraps) < MaxWraps
    /\ IF ~IsString(args[1])
       THEN /\ lastNew' = [type |-> type, id |-> args[1], outcome |-> "TypeError",
                           entry |-> "none", config |-> <<>>, args |-> args]
            /\ UNCHANGED <<zones, wraps>>
       ELSE IF ConstructorBranch(type, args) = "createZone"
       THEN IF Len(args) > 1 /\ ~IsObject(args[2])
            THEN /\ lastNew' = [type |-> type, id |-> args[1], outcome |-> "TypeError",
                                entry |-> "none", config |-> <<>>, args |-> args]
                 /\ UNCHANGED <<zones, wraps>>
            ELSE LET config == IF Len(args) > 1
                               THEN ConfigString(V8ObjectToMap(args[2]))
                               ELSE <<>>
                 IN  /\ zones' = zones \cup {args[1].v}
                     /\ wraps' = Append(wraps, [zoneProxy |-> args[1]])
                     /\ lastNew' = [type |-> type, id |-> args[1],
                                    outcome |-> "constructed",
                                    entry |-> "createZone", config |-> config,
                                    args |-> args]
       ELSE LET got == GetBranch(zones, args[1].v)
            IN  /\ wraps' = IF got.constructed
                            THEN Append(wraps, [zoneProxy |-> got.zoneProxy])
                            ELSE wraps
                /\ lastNew' = [type |-> type, id |-> args[1], outcome |-> got.outcome,
                               entry |-> "getZone", config |-> <<>>, args |-> args]
                /\ UNCHANGED zones
    /\ UNCHANGED <<pc, calls, handlers, jobs, taskQueue, cbLog, schedLog, parseCount,
                   loopAlive>>

(***************************************************************************)
(* NodeAsyncHandler<T>: the hand-over of a completion to the node thread.  *)
(***************************************************************************)
\* NodeAsyncHandler<T>::New(isolate, callback, argsGenerator): the handler
\* holds the callback until it has been invoked.
HandlerNew(callback, kind) ==
    [state |-> "registered", callback |-> callback, kind |-> kind]

\* handler->DispatchCallback(value), on any thread: the value is converted and
\* the invocation of the callback is posted to the node thread.
PostedTask(c, converted) ==
    [handler |-> c, args |-> converted.args, pending |-> converted.pending]

(***************************************************************************)
(* The methods of ZoneWrap.                                                *)
(***************************************************************************)
\* The arguments generator of Execute: the response object.
ExecuteArgs(response) ==
    LET made == CreateResponseObject(response)
    IN  [args |-> <<made.object>>, parses |-> made.parses, pending |-> made.pending]

\* The arguments generator of Broadcast: the response code.
BroadcastArgs(code) == [args |-> <<JSNumber(code)>>, parses |-> 0, pending |-> FALSE]

\* The completion closure Execute gives to ZoneProxy::Execute: the values it
\* passes to handler->DispatchCallback, and the values it calls the user
\* callback with itself, on the thread that runs the closure.
ExecuteCompletionStale(response) ==
    [dispatch |-> <<Response(0, <<>>, <<"4", "0">>)>>, inline |-> <<>>]
ExecuteCompletionForgets(response) == [dispatch |-> <<>>, inline |-> <<>>]
ExecuteCompletionDropsErrors(response) ==
    [dispatch |-> IF response.code = 0 THEN <<response>> ELSE <<>>, inline |-> <<>>]
ExecuteCompletionInline(response) == [dispatch |-> <<>>, inline |-> <<response>>]
ExecuteCompletionTwice(response) == [dispatch |-> <<response, response>>, inline |-> <<>>]
ExecuteCompletion(response) == [dispatch |-> <<response>>, inline |-> <<>>]

\* The completion closure Broadcast gives to ZoneProxy::Broadcast.
BroadcastCompletion(code) == [dispatch |-> <<code>>, inline |-> <<>>]

NewCall(op, w, a0, a1) ==
    [op |-> op, wrap |-> w, input |-> a0, callback |-> a1, outcome |-> "ok",
     message |-> "", value |-> Undefined, returned |-> FALSE, response |-> NoResponse]

\* CHECK_ARG fails: a TypeError is thrown and the method returns.
Threw(call, message) == [call EXCEPT !.outcome = "threw", !.message = message]
\* The process aborts.
Crashed(call) == [call EXCEPT !.outcome = "crashed"]

MayCall ==
    /\ pc = "idle"
    /\ loopAlive
    /\ Len(calls) < MaxCalls

\* ZoneWrap::Execute, up to its return.
Execute(w, a0, a1) ==
    /\ MayCall
    /\ w \in 1..Len(wraps)
    /\ LET c == Len(calls) + 1
           call == NewCall("execute", w, a0, a1)
       IN  IF ~IsObject(a0)
           THEN /\ calls' = Append(calls, Threw(call,
                       "first argument to zone.execute must be the execution request object"))
                /\ pc' = "returning"
                /\ UNCHANGED <<handlers, jobs, schedLog>>
           ELSE IF ~IsFunction(a1)
           THEN /\ calls' = Append(calls, Threw(call,
                       "second argument to zone.execute must be the callback"))
                /\ pc' = "returning"
                /\ UNCHANGED <<handlers, jobs, schedLog>>
           ELSE /\ handlers' = [handlers EXCEPT ![c] = HandlerNew(a1, "execute")]
                /\ \E o \in CreateRequest(a0) :
                      IF o.kind = "threw"
                      THEN /\ calls' = Append(calls, Threw(call, o.message))
                           /\ pc' = "returning"
                           /\ UNCHANGED <<jobs, schedLog>>
                      ELSE IF o.kind = "crash" \/ wraps[w].zoneProxy = NullProxy
                      THEN /\ calls' = Append(calls, Crashed(call))
                           /\ pc' = "crashed"
                           /\ UNCHANGED <<jobs, schedLog>>
                      ELSE /\ calls' = Append(calls, call)
                           /\ pc' = "returning"
                           /\ schedLog' = Append(schedLog,
                                  [call |-> c, entry |-> "execute", payload |-> o.request])
                           /\ jobs' = [jobs EXCEPT ![c] =
                                  [state |-> "queued", entry |-> "execute", value |-> <<>>,
                                   late |-> FALSE]]
    /\ UNCHANGED <<zones, wraps, taskQueue, cbLog, lastNew, parseCount, loopAlive>>

\* ZoneWrap::Broadcast, up to its return.
Broadcast(w, a0, a1) ==
    /\ MayCall
    /\ w \in 1..Len(wraps)
    /\ LET c == Len(calls) + 1
           call == NewCall("broadcast", w, a0, a1)
       IN  IF ~IsString(a0)
           THEN /\ calls' = Append(calls, Threw(call,
                       "first argument to zone.broadcast must be the javascript source"))
                /\ pc' = "returning"
                /\ UNCHANGED <<handlers, jobs, schedLog>>
           ELSE IF ~IsFunction(a1)
           THEN /\ calls' = Append(calls, Threw(call,
                       "second argument to zone.broadcast must be the callback"))
                /\ pc' = "returning"
                /\ UNCHANGED <<handlers, jobs, schedLog>>
           ELSE /\ handlers' = [handlers EXCEPT ![c] = HandlerNew(a1, "broadcast")]
                /\ IF wraps[w].zoneProxy = NullProxy
                   THEN /\ calls' = Append(calls, Crashed(call))
                        /\ pc' = "crashed"
                        /\ UNCHANGED <<jobs, schedLog>>
                   ELSE /\ calls' = Append(calls, call)
                        /\ pc' = "returning"
                        /\ schedLog' = Append(schedLog,
                               [call |-> c, entry |-> "broadcast", payload |-> a0.v])
                        /\ jobs' = [jobs EXCEPT ![c] =
                               [state |-> "queued", entry |-> "broadcast", value |-> <<>>,
                                late |-> FALSE]]
    /\ UNCHANGED <<zones, wraps, taskQueue, cbLog, lastNew, parseCount, loopAlive>>

\* The return of Execute or Broadcast to JavaScript.  It waits for nothing.
AsyncReturnWaits(c) == jobs[c].state \in {"none", "done"}
AsyncReturnEnabled(c) == TRUE

ReturnReleases ==
    /\ pc = "returning"
    /\ AsyncReturnEnabled(Len(calls))
    /\ pc' = "idle"
    /\ calls' = [calls EXCEPT ![Len(calls)].returned = TRUE]
    /\ handlers' = [handlers EXCEPT ![Len(calls)].state =
                        IF @ = "none" THEN "none" ELSE "released"]
    /\ UNCHANGED <<zones, wraps, jobs, taskQueue, cbLog, schedLog, lastNew,
                   parseCount, loopAlive>>
Return ==
    /\ pc = "returning"
    /\ AsyncReturnEnabled(Len(calls))
    /\ pc' = "idle"
    /\ calls' = [calls EXCEPT ![Len(calls)].returned = TRUE]
    /\ UNCHANGED <<zones, wraps, handlers, jobs, taskQueue, cbLog, schedLog, lastNew,
                   parseCount, loopAlive>>

\* ZoneWrap::ExecuteSync up to the blocking call of ZoneProxy::ExecuteSync.
ExecuteSync(w, a0) ==
    /\ MayCall
    /\ w \in 1..Len(wraps)
    /\ LET c == Len(calls) + 1
           call == NewCall("executeSync", w, a0, Undefined)
       IN  IF ~IsObject(a0)
           THEN /\ calls' = Append(calls, [Threw(call,
                       "first argument to zone.execute must be the execution request object")
                       EXCEPT !.returned = TRUE])
                /\ UNCHANGED <<pc, schedLog>>
           ELSE \E o \in CreateRequest(a0) :
                   IF o.kind = "threw"
                   THEN /\ calls' = Append(calls,
                               [Threw(call, o.message) EXCEPT !.returned = TRUE])
                        /\ UNCHANGED <<pc, schedLog>>
                   ELSE IF o.kind = "crash" \/ wraps[w].zoneProxy = NullProxy
                   THEN /\ calls' = Append(calls, Crashed(call))
                        /\ pc' = "crashed"
                        /\ UNCHANGED schedLog
                   ELSE /\ calls' = Append(calls, [call EXCEPT !.outcome = "pending"])
                        /\ pc' = "blocked"
                        /\ schedLog' = Append(schedLog,
                               [call |-> c, entry |-> "executeSync", payload |-> o.request])
    /\ UNCHANGED <<zones, wraps, handlers, jobs, taskQueue, cbLog, lastNew, parseCount,
                   loopAlive>>

\* ZoneProxy::ExecuteSync returns response: the rest of ZoneWrap::ExecuteSync.
ExecuteSyncReturnDrains(response) ==
    /\ pc = "blocked"
    /\ calls[Len(calls)].op = "executeSync"
    /\ LET made == CreateResponseObject(response)
       IN  /\ calls' = [calls EXCEPT ![Len(calls)] =
                   [@ EXCEPT !.outcome = IF made.pending THEN "threw" ELSE "ok",
                             !.returned = TRUE,
                             !.value = JSObject(made.object),
                             !.response = response]]
           /\ parseCount' = parseCount + made.parses
    /\ pc' = "idle"
    /\ taskQueue' = <<>>
    /\ UNCHANGED <<zones, wraps, handlers, jobs, cbLog, schedLog, lastNew, loopAlive>>
ExecuteSyncReturnPosts(response) ==
    /\ pc = "blocked"
    /\ calls[Len(calls)].op = "executeSync"
    /\ LET made == ExecuteArgs(response)
       IN  /\ calls' = [calls EXCEPT ![Len(calls)] =
                   [@ EXCEPT !.outcome = "ok", !.returned = TRUE, !.response = response]]
           /\ taskQueue' = Append(taskQueue, PostedTask(Len(calls), made))
           /\ parseCount' = parseCount + made.parses
    /\ pc' = "idle"
    /\ UNCHANGED <<zones, wraps, handlers, jobs, cbLog, schedLog, lastNew, loopAlive>>
ExecuteSyncReturn(response) ==
    /\ pc = "blocked"
    /\ calls[Len(calls)].op = "executeSync"
    /\ LET made == CreateResponseObject(response)
       IN  /\ calls' = [calls EXCEPT ![Len(calls)] =
                   [@ EXCEPT !.outcome = IF made.pending THEN "threw" ELSE "ok",
                             !.returned = TRUE,
                             !.value = JSObject(made.object),
                             !.response = response]]
           /\ parseCount' = parseCount + made.parses
    /\ pc' = "idle"
    /\ UNCHANGED <<zones, wraps, handlers, jobs, taskQueue, cbLog, schedLog, lastNew,
                   loopAlive>>

\* ZoneWrap::BroadcastSync up to the blocking call of ZoneProxy::BroadcastSync.
BroadcastSync(w, a0) ==
    /\ MayCall
    /\ w \in 1..Len(wraps)
    /\ LET c == Len(calls) + 1
           call == NewCall("broadcastSync", w, a0, Undefined)
       IN  IF ~IsString(a0)
           THEN /\ calls' = Append(calls, [Threw(call,
                       "first argument to zone.broadcastSync must be the javascript source")
                       EXCEPT !.returned = TRUE])
                /\ UNCHANGED <<pc, schedLog>>
           ELSE IF wraps[w].zoneProxy = NullProxy
           THEN /\ calls' = Append(calls, Crashed(call))
                /\ pc' = "crashed"
                /\ UNCHANGED schedLog
           ELSE /\ calls' = Append(calls, [call EXCEPT !.outcome = "pending"])
                /\ pc' = "blocked"
                /\ schedLog' = Append(schedLog,
                       [call |-> c, entry |-> "broadcastSync", payload |-> a0.v])
    /\ UNCHANGED <<zones, wraps, handlers, jobs, taskQueue, cbLog, lastNew, parseCount,
                   loopAlive>>

\* ZoneProxy::BroadcastSync returns code: the rest of ZoneWrap::BroadcastSync.
BroadcastSyncReturn(code) ==
    /\ pc = "blocked"
    /\ calls[Len(calls)].op = "broadcastSync"
    /\ calls' = [calls EXCEPT ![Len(calls)] =
           [@ EXCEPT !.outcome = "ok", !.returned = TRUE, !.value = JSNumber(code),
                     !.response = Response(code, <<>>, <<>>)]]
    /\ pc' = "idle"
    /\ UNCHANGED <<zones, wraps, handlers, jobs, taskQueue, cbLog, schedLog, lastNew,
                   parseCount, loopAlive>>

(***************************************************************************)
(* The zone's worker threads and the node event loop.                      *)
(***************************************************************************)
\* A worker of the zone takes up the work of call c.
WorkerStart(c) ==
    /\ pc # "crashed"
    /\ jobs[c].state = "queued"
    /\ jobs' = [jobs EXCEPT ![c].state = "running"]
    /\ UNCHANGED <<zones, wraps, pc, calls, handlers, taskQueue, cbLog, schedLog,
                   lastNew, parseCount, loopAlive>>

RECURSIVE SumParses(_)
SumParses(converted) ==
    IF converted = <<>> THEN 0 ELSE converted[1].parses + SumParses(Tail(converted))

\* The worker finishes the work of call c with value and runs, once, the
\* completion closure it was given.
WorkerComplete(c, value) ==
    /\ pc # "crashed"
    /\ jobs[c].state = "running"
    /\ LET execute == jobs[c].entry = "execute"
           done == IF execute THEN ExecuteCompletion(value) ELSE BroadcastCompletion(value)
           Convert(v) == IF execute THEN ExecuteArgs(v) ELSE BroadcastArgs(v)
           posted == [i \in 1..Len(done.dispatch) |-> Convert(done.dispatch[i])]
           inline == [i \in 1..Len(done.inline) |-> Convert(done.inline[i])]
       IN  /\ jobs' = [jobs EXCEPT ![c] = [@ EXCEPT !.state = "done", !.value = <<value>>,
                                                   !.late = ~loopAlive]]
           /\ taskQueue' = taskQueue \o
                  [i \in 1..Len(posted) |-> PostedTask(c, posted[i])]
           /\ cbLog' = cbLog \o
                  [i \in 1..Len(inline) |->
                      [handler |-> c, callback |-> handlers[c].callback,
                       thread |-> "worker", queued |-> FALSE, returned |-> calls[c].returned,
                       args |-> inline[i].args, pending |-> inline[i].pending]]
           /\ handlers' = IF posted = <<>> THEN handlers
                          ELSE [handlers EXCEPT ![c].state = "dispatched"]
           /\ parseCount' = parseCount + SumParses(posted) + SumParses(inline)
    /\ UNCHANGED <<zones, wraps, pc, calls, schedLog, lastNew, loopAlive>>

\* The node thread runs the first posted task: the callback is invoked with
\* the converted arguments and the handler is released.
RunTask ==
    /\ pc = "idle"
    /\ loopAlive
    /\ taskQueue # <<>>
    /\ LET task == Head(taskQueue)
       IN  /\ cbLog' = Append(cbLog,
                  [handler |-> task.handler, callback |-> handlers[task.handler].callback,
                   thread |-> "node", queued |-> TRUE,
                   returned |-> calls[task.handler].returned, args |-> task.args,
                   pending |-> task.pending])
           /\ handlers' = [handlers EXCEPT ![task.handler].state = "released"]
    /\ taskQueue' = Tail(taskQueue)
    /\ UNCHANGED <<zones, wraps, pc, calls, jobs, schedLog, lastNew, parseCount, loopAlive>>

\* The node event loop stops: no JavaScript runs any more.
Shutdown ==
    /\ pc = "idle"
    /\ loopAlive
    /\ loopAlive' = FALSE
    /\ UNCHANGED <<zones, wraps, pc, calls, handlers, jobs, taskQueue, cbLog, schedLog,
                   lastNew, parseCount>>

\* One zone object made by createZone, and the method calls on it with the
\* workers of the zone and the node event loop running beside them.
Next ==
    \/ wraps = <<>> /\ NewCallback("CREATE", <<Text(Z1)>>)
    \/ \E a0 \in ExecuteInputs, a1 \in Callbacks(Len(calls) + 1) : Execute(1, a0, a1)
    \/ \E a0 \in ExecuteInputs : ExecuteSync(1, a0)
    \/ \E response \in Responses : ExecuteSyncReturn(response)
    \/ \E a0 \in Sources, a1 \in Callbacks(Len(calls) + 1) : Broadcast(1, a0, a1)
    \/ \E a0 \in Sources : BroadcastSync(1, a0)
    \/ \E code \in ResponseCodes : BroadcastSyncReturn(code)
    \/ Return
    \/ \E c \in CallIds : WorkerStart(c)
    \/ \E c \in CallIds, response \in Responses :
           jobs[c].entry = "execute" /\ WorkerComplete(c, response)
    \/ \E c \in CallIds, code \in ResponseCodes :
           jobs[c].entry = "broadcast" /\ WorkerComplete(c, code)
    \/ RunTask
    \/ Shutdown

Spec == Init /\ [][Next]_vars

\* The same without the end of the event loop: the node thread returns from
\* every call it makes, the blocking calls included, and runs a posted task
\* whenever it has nothing else on its stack.
NextFair ==
    \/ wraps = <<>> /\ NewCallback("CREATE", <<Text(Z1)>>)
    \/ \E a0 \in ExecuteInputs, a1 \in Callbacks(Len(calls) + 1) : Execute(1, a0, a1)
    \/ \E a0 \in ExecuteInputs : ExecuteSync(1, a0)
    \/ \E response \in Responses : ExecuteSyncReturn(response)
    \/ \E a0 \in Sources, a1 \in Callbacks(Len(calls) + 1) : Broadcast(1, a0, a1)
    \/ \E a0 \in Sources : BroadcastSync(1, a0)
    \/ \E code \in ResponseCodes : BroadcastSyncReturn(code)
    \/ Return
    \/ \E c \in CallIds : WorkerStart(c)
    \/ \E c \in CallIds, response \in Responses :
           jobs[c].entry = "execute" /\ WorkerComplete(c, response)
    \/ \E c \in CallIds, code \in ResponseCodes :
           jobs[c].entry = "broadcast" /\ WorkerComplete(c, code)
    \/ RunTask

SpecFair ==
    /\ Init
    /\ [][NextFair]_vars
    /\ WF_vars(Return)
    /\ WF_vars(\E response \in Responses : ExecuteSyncReturn(response))
    /\ WF_vars(\E code \in ResponseCodes : BroadcastSyncReturn(code))
    /\ SF_vars(RunTask)

\* Construction of zone objects from all arguments, and calls on them.
NextZone ==
    \/ \E args \in CreateArguments : NewCallback("CREATE", args)
    \/ \E args \in GetArguments : NewCallback("GET", args)
    \/ \E w \in 1..MaxWraps, a1 \in Callbacks(Len(calls) + 1) : Execute(w, ObjFull, a1)
    \/ \E w \in 1..MaxWraps : ExecuteSync(w, ObjFull)
    \/ \E response \in Responses : ExecuteSyncReturn(response)
    \/ \E w \in 1..MaxWraps, a0 \in Sources, a1 \in Callbacks(Len(calls) + 1) :
           Broadcast(w, a0, a1)
    \/ \E w \in 1..MaxWraps, a0 \in Sources : BroadcastSync(w, a0)
    \/ \E code \in ResponseCodes : BroadcastSyncReturn(code)
    \/ Return

SpecZone == Init /\ [][NextZone]_vars

\* One call of execute or executeSync on every request object, and of
\* broadcast or broadcastSync on every source.
NextRequest ==
    \/ wraps = <<>> /\ NewCallback("CREATE", <<Text(Z1)>>)
    \/ \E a0 \in AllExecuteInputs, a1 \in AllCallbacks(1) :
           calls = <<>> /\ Execute(1, a0, a1)
    \/ \E a0 \in AllExecuteInputs : calls = <<>> /\ ExecuteSync(1, a0)
    \/ \E response \in Responses : ExecuteSyncReturn(response)
    \/ \E a0 \in AllSources, a1 \in AllCallbacks(1) : calls = <<>> /\ Broadcast(1, a0, a1)
    \/ \E a0 \in AllSources : calls = <<>> /\ BroadcastSync(1, a0)
    \/ \E code \in ResponseCodes : BroadcastSyncReturn(code)
    \/ Return

SpecRequest == Init /\ [][NextRequest]_vars

\* One call of execute or executeSync answered by every response.
NextResponse ==
    \/ wraps = <<>> /\ NewCallback("CREATE", <<Text(Z1)>>)
    \/ calls = <<>> /\ Execute(1, ObjFull, JSFunction(1))
    \/ calls = <<>> /\ ExecuteSync(1, ObjFull)
    \/ pc = "blocked" /\ \E response \in AllResponses : ExecuteSyncReturn(response)
    \/ Return
    \/ WorkerStart(1)
    \/ jobs[1].state = "running" /\ \E response \in AllResponses : WorkerComplete(1, response)
    \/ RunTask

SpecResponse == Init /\ [][NextResponse]_vars

(***************************************************************************)
(* Properties.                                                             *)
(***************************************************************************)
\* Number of invocations of the callback of call c, and of tasks posted for
\* it and not yet run.
Invocations(c) == Cardinality({i \in 1..Len(cbLog) : cbLog[i].handler = c})
Posted(c) == Cardinality({i \in 1..Len(taskQueue) : taskQueue[i].handler = c})

\* The arguments the callback of call c is to get for the value its
\* completion closure was run with.
Converted(c) ==
    IF jobs[c].entry = "execute" THEN <<CreateResponseObject(jobs[c].value[1]).object>>
    ELSE <<JSNumber(jobs[c].value[1])>>

\* C1: once the scheduler has run the completion closure of an execute or
\* broadcast call, its callback has been invoked exactly once, or is posted
\* exactly once and not yet invoked; it is invoked on the node thread with the
\* converted value; a call whose closure has not run has no invocation.
C1_ExactlyOnce ==
    \A c \in 1..Len(calls) :
        /\ jobs[c].state = "done" => Invocations(c) + Posted(c) = 1
        /\ jobs[c].state # "done" => Invocations(c) + Posted(c) = 0
        /\ \A i \in 1..Len(cbLog) :
               cbLog[i].handler = c =>
                   /\ cbLog[i].thread = "node"
                   /\ cbLog[i].callback = calls[c].callback
                   /\ cbLog[i].args = Converted(c)
        /\ \A i \in 1..Len(taskQueue) :
               taskQueue[i].handler = c => taskQueue[i].args = Converted(c)

\* An execute and a broadcast have both been delivered.
C1_Witness ==
    /\ taskQueue = <<>>
    /\ \E i, j \in 1..Len(cbLog) :
           /\ calls[cbLog[i].handler].op = "execute"
           /\ calls[cbLog[j].handler].op = "broadcast"
           /\ Invocations(cbLog[i].handler) = 1
           /\ Invocations(cbLog[j].handler) = 1

\* C2: every invocation of a user callback runs on the node thread, as a task
\* taken from its queue.
C2_PostedNotInline ==
    \A i \in 1..Len(cbLog) : cbLog[i].thread = "node" /\ cbLog[i].queued

\* The callback of a call has run on the node thread after a later call was
\* made.
C2_Witness ==
    \E i \in 1..Len(cbLog) :
        /\ cbLog[i].thread = "node"
        /\ cbLog[i].handler < Len(calls)

\* Whether the function key of a request object is missing or no string.
FunctionMissingOrNotString(obj) ==
    /\ obj.t = "object"
    /\ obj.v.function.t \in {"absent", "number"}

\* C3: a call of execute or executeSync on an object whose function key is
\* missing or is no string has thrown, and no ZoneProxy entry point was called
\* for it.
C3_FunctionValidated ==
    \A c \in 1..Len(calls) :
        (calls[c].op \in {"execute", "executeSync"}
            /\ FunctionMissingOrNotString(calls[c].input)) =>
                /\ calls[c].outcome = "threw"
                /\ \A i \in 1..Len(schedLog) : schedLog[i].call # c
                /\ jobs[c].state = "none"

\* execute with a callback, and executeSync, have both rejected a function
\* that is a number; until then the scheduler was only asked for the zone.
C3_Witness ==
    \E c \in 1..Len(calls) :
        /\ calls[c].input.t = "object"
        /\ calls[c].input.v.function.t = "number"
        /\ IsFunction(calls[c].callback)
        /\ calls[c].message = FunctionNotString
        /\ schedLog = <<>>

(***************************************************************************)
(* The values with a JSON text of at most MaxLen characters over Alphabet, *)
(* and their texts.                                                        *)
(***************************************************************************)
Quote == "\""
RECURSIVE Stringify(_)
RECURSIVE StringifyAll(_)
StringifyAll(es) ==
    IF es = <<>> THEN <<>>
    ELSE IF Len(es) = 1 THEN Stringify(es[1])
    ELSE Stringify(es[1]) \o <<",">> \o StringifyAll(Tail(es))
Stringify(val) ==
    CASE val.t = "number" -> NumToStr(val.v)
      [] val.t = "string" -> <<Quote>> \o val.v \o <<Quote>>
      [] val.t = "array" -> <<"[">> \o StringifyAll(val.v) \o <<"]">>

RECURSIVE NumeralValue(_)
NumeralValue(ds) ==
    IF ds = <<>> THEN 0
    ELSE 10 * NumeralValue(SubSeq(ds, 1, Len(ds) - 1)) + DigitVal(ds[Len(ds)])

Numerals(n) ==
    {ds \in UNION {[1..k -> {c \in Alphabet : IsDigit(c)}] : k \in 1..n} :
        Len(ds) = 1 \/ ds[1] # "0"}

RECURSIVE ValuesUpTo(_)
ValuesUpTo(n) ==
    IF n <= 0 THEN {}
    ELSE LET numbers == {JSNumber(NumeralValue(ds)) : ds \in Numerals(n)}
             strings == IF n < 2 THEN {}
                        ELSE {JSString(cs) :
                                cs \in UNION {[1..k -> Alphabet \ {Quote}] : k \in 0..(n - 2)}}
             elems == ValuesUpTo(n - 2)
             arrays == IF n < 2 THEN {}
                       ELSE {JSArray(es) :
                               es \in {x \in UNION {[1..k -> elems] : k \in 0..((n - 1) \div 2)} :
                                          Len(StringifyAll(x)) <= n - 2}}
         IN  numbers \cup strings \cup arrays

JsonValues == ValuesUpTo(MaxLen)

\* The value a text is the JSON text of, or the text itself as a string when
\* it is the text of none.
Expected(text) ==
    LET of == {val \in JsonValues : Stringify(val) = text}
    IN  IF of = {} THEN JSString(text) ELSE CHOOSE val \in of : TRUE

\* The calls whose response has been made into a response object, with the
\* response and the object.
SyncDecoded(c) == calls[c].op = "executeSync" /\ calls[c].returned /\ calls[c].outcome # "threw"
AsyncDecoded(c) == jobs[c].entry = "execute" /\ jobs[c].state = "done"

\* C4: the returnValue of a response object is the value its non-empty
\* returnValue text is the JSON text of, and the text itself when it is the
\* text of no value; executeSync returns it and throws nothing.
C4_ParseOrFallback ==
    \A c \in 1..Len(calls) :
        /\ (calls[c].op = "executeSync" /\ calls[c].returned
                /\ calls[c].message = "" /\ calls[c].response.returnValue # <<>>) =>
               /\ calls[c].outcome = "ok"
               /\ calls[c].value.v.returnValue = Expected(calls[c].response.returnValue)
        /\ \A i \in 1..Len(cbLog) :
               (cbLog[i].handler = c /\ jobs[c].entry = "execute"
                    /\ jobs[c].value[1].returnValue # <<>>) =>
                   /\ ~cbLog[i].pending
                   /\ cbLog[i].args[1].returnValue = Expected(jobs[c].value[1].returnValue)

\* A text that is no JSON has come back from executeSync as itself, through a
\* parse that failed.
C4_Witness ==
    \E c \in 1..Len(calls) :
        /\ SyncDecoded(c)
        /\ calls[c].response.returnValue = <<"[", "4">>
        /\ calls[c].value.v.returnValue = JSString(<<"[", "4">>)
        /\ parseCount = 1

\* C5: the response object of an empty returnValue has the empty string as
\* its returnValue, and v8::JSON::Parse has run once for each response with a
\* non-empty returnValue and not at all for the others.
C5_EmptyNotParsed ==
    /\ \A c \in 1..Len(calls) :
           /\ (SyncDecoded(c) /\ calls[c].response.returnValue = <<>>) =>
                  calls[c].value.v.returnValue = JSString(<<>>)
           /\ \A i \in 1..Len(cbLog) :
                  (cbLog[i].handler = c /\ jobs[c].entry = "execute"
                       /\ jobs[c].value[1].returnValue = <<>>) =>
                      cbLog[i].args[1].returnValue = JSString(<<>>)
    /\ parseCount =
           Cardinality({c \in 1..Len(calls) :
               \/ SyncDecoded(c) /\ calls[c].response.returnValue # <<>>
               \/ AsyncDecoded(c) /\ jobs[c].value[1].returnValue # <<>>})

\* A response with an empty returnValue has been delivered to a callback.
C5_Witness ==
    \E i \in 1..Len(cbLog) :
        /\ jobs[cbLog[i].handler].value[1].returnValue = <<>>
        /\ cbLog[i].args[1].returnValue = JSString(<<>>)
        /\ parseCount = 0

\* C6: the request of an execute or executeSync call on an object with a
\* string function and no module, arguments or timeout keys has that function,
\* an empty module, no arguments and no timeout.
C6_DefaultsWhenAbsent ==
    \A i \in 1..Len(schedLog) :
        LET obj == calls[schedLog[i].call].input
        IN  (/\ schedLog[i].entry \in {"execute", "executeSync"}
             /\ obj.v.function.t = "string"
             /\ obj.v.module = Absent
             /\ obj.v.arguments = Absent
             /\ obj.v.timeout = Absent) =>
                schedLog[i].payload = [module |-> <<>>, function |-> obj.v.function.v,
                                       arguments |-> <<>>, timeout |-> 0]

\* C7: whatever the code and errorMessage of a response, executeSync returns
\* a response object and the callback of execute is invoked or posted with
\* one, and the object has that code and that errorMessage.
C7_ErrorsAreData ==
    \A c \in 1..Len(calls) :
        /\ (calls[c].op = "executeSync" /\ calls[c].returned /\ calls[c].message = "") =>
               /\ calls[c].outcome = "ok"
               /\ calls[c].value.v.code = JSNumber(calls[c].response.code)
               /\ calls[c].value.v.errorMessage = JSString(calls[c].response.errorMessage)
        /\ (jobs[c].entry = "execute" /\ jobs[c].state = "done") =>
               /\ Invocations(c) + Posted(c) >= 1
               /\ \A i \in 1..Len(cbLog) :
                      cbLog[i].handler = c =>
                          /\ cbLog[i].args[1].code = JSNumber(jobs[c].value[1].code)
                          /\ cbLog[i].args[1].errorMessage = JSString(jobs[c].value[1].errorMessage)
               /\ \A i \in 1..Len(taskQueue) :
                      taskQueue[i].handler = c =>
                          /\ taskQueue[i].args[1].code = JSNumber(jobs[c].value[1].code)
                          /\ taskQueue[i].args[1].errorMessage =
                                 JSString(jobs[c].value[1].errorMessage)

\* A response with code 1 has reached a callback and another has been
\* returned by executeSync.
C7_Witness ==
    /\ \E i \in 1..Len(cbLog) :
           /\ jobs[cbLog[i].handler].entry = "execute"
           /\ cbLog[i].args[1].code = JSNumber(1)
           /\ cbLog[i].args[1].errorMessage = JSString(Boom)
    /\ \E c \in 1..Len(calls) :
           /\ calls[c].op = "executeSync"
           /\ calls[c].outcome = "ok"
           /\ calls[c].value.v.code = JSNumber(1)

\* C8: the return of execute or broadcast is enabled as soon as the method
\* has run, whatever the state of its work, and a callback is only ever
\* invoked for a call that has returned.
C8_AsyncNeverWaits ==
    /\ pc = "returning" => ENABLED Return
    /\ \A i \in 1..Len(cbLog) : cbLog[i].returned

\* The work of a call is done and its callback posted while the call has not
\* returned yet.
C8_Witness ==
    /\ pc = "returning"
    /\ jobs[Len(calls)].state = "done"
    /\ Posted(Len(calls)) = 1
    /\ ~calls[Len(calls)].returned

\* A step of executeSync or broadcastSync: the call, or the return of the
\* blocking call of the scheduler.
SyncStep ==
    \/ /\ pc = "idle"
       /\ Len(calls') = Len(calls) + 1
       /\ calls'[Len(calls')].op \in {"executeSync", "broadcastSync"}
    \/ pc = "blocked" /\ pc' = "idle"

\* C9: no step of executeSync or broadcastSync changes the handlers, the task
\* queue or the callbacks invoked, and what the call returns is the response
\* object of the response, or the code, the scheduler returned.
C9_SyncNoBridge ==
    /\ [][SyncStep => /\ handlers' = handlers
                      /\ taskQueue' = taskQueue
                      /\ cbLog' = cbLog]_vars
    /\ [](\A c \in 1..Len(calls) :
             /\ handlers[c].state # "none" => calls[c].op \in {"execute", "broadcast"}
             /\ (calls[c].returned /\ calls[c].message = "") =>
                    /\ calls[c].op = "executeSync" =>
                           calls[c].value = JSObject(CreateResponseObject(calls[c].response).object)
                    /\ calls[c].op = "broadcastSync" =>
                           calls[c].value = JSNumber(calls[c].response.code))

\* executeSync has returned a response object while the callback of an
\* earlier execute was posted and not yet run.
C9_Witness ==
    \E c \in 1..Len(calls) :
        /\ calls[c].op = "executeSync"
        /\ calls[c].outcome = "ok"
        /\ calls[c].returned
        /\ calls[c].value.v.returnValue = JSNumber(40)
        /\ taskQueue # <<>>
        /\ cbLog = <<>>

RECURSIVE Tokens(_, _)
Tokens(props, n) ==
    IF n = 0 THEN <<>>
    ELSE Tokens(props, n - 1) \o <<" ", "-", "-">> \o props[n].key \o <<" ">>
         \o Utf8String(props[n].value)

DeliveredValue(c) ==
    IF jobs[c].entry = "execute" THEN ExecuteArgs(jobs[c].value[1]).args
    ELSE BroadcastArgs(jobs[c].value[1]).args

\* C12: once the completion closure of a call has run, whatever the node
\* thread is doing and whatever is queued before it, the callback of the call
\* is in the end invoked with the conversion of the value the closure got,
\* provided the node thread keeps running its task queue.
C12_EventuallyInvoked ==
    \A c \in CallIds :
        (jobs[c].state = "done")
            ~> (\E i \in 1..Len(cbLog) :
                    /\ cbLog[i].handler = c
                    /\ cbLog[i].thread = "node"
                    /\ cbLog[i].args = DeliveredValue(c))

\* The completion of the second call was dispatched while the node thread was
\* still inside that call and the task of the first call was queued.
C12_Witness ==
    /\ pc = "returning"
    /\ Len(calls) = 2
    /\ jobs[2].state = "done"
    /\ Len(taskQueue) = 2
    /\ taskQueue[1].handler = 1
    /\ taskQueue[2].handler = 2

\* C13: when the completion closure of a call runs after the node event loop
\* has stopped, the callback of the call is never invoked, the dispatch is
\* made once and not again, and nothing fails: the call stays as it returned
\* and the process does not abort.
C13_NoDeliveryAfterShutdown ==
    \A c \in CallIds :
        (jobs[c].state = "done" /\ jobs[c].late) =>
            /\ Invocations(c) = 0
            /\ Posted(c) <= 1
            /\ handlers[c].state = "dispatched"
            /\ calls[c].outcome = "ok"
            /\ pc # "crashed"

\* The loop stopped while the work of call 1 was running; the work then
\* finished and its completion was dispatched.
C13_Witness ==
    /\ ~loopAlive
    /\ jobs[1].state = "done"
    /\ jobs[1].late
    /\ jobs[1].entry = "execute"
    /\ Posted(1) = 1
    /\ cbLog = <<>>

\* C14: execute registers the completion handler only after the request is
\* built: a call of execute that threw a validation error has no handler,
\* and every call that has a handler has been handed to the scheduler.
C14_RegisteredAfterBuilt ==
    \A c \in 1..Len(calls) :
        /\ (calls[c].op = "execute" /\ calls[c].outcome = "threw") =>
               handlers[c].state = "none"
        /\ (calls[c].op = "execute" /\ handlers[c].state # "none") =>
               \E i \in 1..Len(schedLog) : schedLog[i].call = c

\* C15: a call of execute or executeSync on an object whose arguments value
\* is present and is no array has thrown a validation error and reached no
\* ZoneProxy entry point; when the value is an array, the request given to
\* the scheduler has the string forms of its elements in their order.
C15_ArgumentsValidated ==
    \A c \in 1..Len(calls) :
        (calls[c].op \in {"execute", "executeSync"} /\ IsObject(calls[c].input)) =>
            LET arguments == calls[c].input.v.arguments
            IN  /\ arguments.t \notin {"absent", "throws", "array"} =>
                       /\ calls[c].outcome = "threw"
                       /\ \A i \in 1..Len(schedLog) : schedLog[i].call # c
                /\ arguments.t = "array" =>
                       \A i \in 1..Len(schedLog) :
                           schedLog[i].call = c =>
                               /\ Len(schedLog[i].payload.arguments) = Len(arguments.v)
                               /\ \A k \in 1..Len(arguments.v) :
                                      schedLog[i].payload.arguments[k]
                                          = Utf8String(arguments.v[k])

\* The work of call c finishes with some value.
Finishes(c) ==
    \/ \E response \in Responses :
           jobs[c].entry = "execute" /\ WorkerComplete(c, response)
    \/ \E code \in ResponseCodes :
           jobs[c].entry = "broadcast" /\ WorkerComplete(c, code)

\* C16: with two asynchronous calls outstanding, the work of either may
\* finish first, so their callbacks are invoked in either order; and in
\* whatever order, each invocation is of the callback of its own call with
\* the conversion of the value the work of that call finished with.
C16_EachItsOwn ==
    /\ \A i \in 1..Len(cbLog) :
           /\ cbLog[i].callback = calls[cbLog[i].handler].callback
           /\ cbLog[i].args = DeliveredValue(cbLog[i].handler)
    /\ \A c, d \in CallIds :
           (c # d /\ jobs[c].state = "running" /\ jobs[d].state = "running") =>
               /\ ENABLED Finishes(c)
               /\ ENABLED Finishes(d)

\* Two calls of execute: the callback of the second was invoked first, with
\* the error response of its work, and then the callback of the first, with
\* the successful response of its work.
C16_Witness ==
    /\ Len(cbLog) = 2
    /\ calls[1].op = "execute" /\ calls[2].op = "execute"
    /\ cbLog[1].handler = 2 /\ cbLog[1].callback = JSFunction(2)
    /\ cbLog[2].handler = 1 /\ cbLog[2].callback = JSFunction(1)
    /\ jobs[1].value = <<Response(0, <<>>, <<"4", "0">>)>>
    /\ jobs[2].value = <<Response(1, Boom, <<>>)>>
    /\ cbLog[1].args[1].code = JSNumber(1)
    /\ cbLog[2].args[1].code = JSNumber(0)

\* Call c is asynchronous, was handed to the scheduler, and its callback has
\* not been invoked yet.
Pending(c) ==
    /\ c <= Len(calls)
    /\ jobs[c].state # "none"
    /\ Invocations(c) = 0

\* C17: while the completion of an asynchronous call is pending, executeSync
\* and broadcastSync can be called; no step of theirs changes the work, the
\* handler or the posted task of the pending call; and a completion that is
\* dispatched while the node thread is blocked in the synchronous call is
\* still delivered, once, with the conversion of its own value.
C17_SyncLeavesPending ==
    /\ [](\A c \in CallIds :
             (Pending(c) /\ MayCall /\ wraps # <<>>) =>
                 /\ ENABLED ExecuteSync(1, ObjFull)
                 /\ ENABLED BroadcastSync(1, Text(Foo)))
    /\ [][(SyncStep /\ \E c \in CallIds : Pending(c)) =>
              /\ jobs' = jobs
              /\ handlers' = handlers
              /\ taskQueue' = taskQueue
              /\ cbLog' = cbLog]_vars
    /\ [](\A c \in CallIds : Invocations(c) <= 1)
    /\ \A c \in CallIds :
           (pc = "blocked" /\ Pending(c) /\ jobs[c].state = "done")
               ~> (/\ Invocations(c) = 1
                   /\ \A i \in 1..Len(cbLog) :
                          cbLog[i].handler = c => cbLog[i].args = DeliveredValue(c))

\* broadcastSync was called after execute and has returned its code while the
\* work of the execute was still running in the zone.
C17_Witness ==
    /\ Len(calls) = 2
    /\ calls[1].op = "execute"
    /\ jobs[1].state = "running"
    /\ handlers[1].state = "registered"
    /\ calls[2].op = "broadcastSync"
    /\ calls[2].returned
    /\ calls[2].value = JSNumber(1)

\* C18: from the creation of the handler of a call until its posted task has
\* run, the handler exists and holds the callback and the conversion of the
\* call, whether or not the call has returned: it does while the work is
\* queued or running and while the task is posted; and a handler is released
\* only when the callback has been invoked.
C18_AliveUntilInvoked ==
    \A c \in 1..Len(calls) :
        /\ jobs[c].state \in {"queued", "running"} =>
               handlers[c] = [state |-> "registered", callback |-> calls[c].callback,
                              kind |-> calls[c].op]
        /\ Posted(c) > 0 =>
               handlers[c] = [state |-> "dispatched", callback |-> calls[c].callback,
                              kind |-> calls[c].op]
        /\ handlers[c].state = "released" => Invocations(c) >= 1

\* The first call's callback was invoked and its handler released; the
\* second call has returned, its work is running and its handler is alive.
C18_Witness ==
    /\ Len(calls) = 2
    /\ handlers[1].state = "released"
    /\ Invocations(1) = 1
    /\ calls[2].returned
    /\ jobs[2].state = "running"
    /\ handlers[2].state = "registered"
    /\ handlers[2].callback = JSFunction(2)

\* C19: a construction takes the createZone path, with the id and the config
\* made of the settings, exactly when its constructor type is CREATE, and the
\* getZone path, with the id, exactly when it is GET, whatever the arguments
\* and the zones that exist; and no step of execute, executeSync, broadcast
\* or broadcastSync changes the zone proxy of a zone object: it stays the one
\* the object was constructed with.
C19_BoundOnceByType ==
    /\ [](lastNew.type # "none" =>
             /\ lastNew.outcome = "TypeError" <=> lastNew.entry = "none"
             /\ lastNew.outcome # "TypeError" =>
                    /\ lastNew.entry = "createZone" <=> lastNew.type = "CREATE"
                    /\ lastNew.entry = "getZone" <=> lastNew.type = "GET"
                    /\ lastNew.id = lastNew.args[1]
             /\ lastNew.entry = "getZone" => lastNew.config = <<>>)
    /\ [](\A w \in 1..Len(wraps) : IsString(wraps[w].zoneProxy))
    /\ [][/\ Len(wraps') >= Len(wraps)
          /\ \A w \in 1..Len(wraps) : wraps'[w] = wraps[w]
          /\ (calls' # calls \/ pc' # pc) => wraps' = wraps]_vars

\* One zone object was made by createZone and one by getZone of the same id,
\* and after a call of execute and one of broadcastSync on the second both
\* still hold the zone they were constructed with.
C19_Witness ==
    /\ Len(wraps) = 2
    /\ lastNew.type = "GET" /\ lastNew.entry = "getZone"
    /\ lastNew.outcome = "constructed"
    /\ wraps[1].zoneProxy = Text(Z1)
    /\ wraps[2].zoneProxy = Text(Z1)
    /\ Len(calls) = 2
    /\ calls[1].op = "execute" /\ calls[1].wrap = 2 /\ calls[1].returned
    /\ calls[2].op = "broadcastSync" /\ calls[2].wrap = 2 /\ calls[2].returned

====
